---- MODULE Spec2Model ----
(***************************************************************************)
(* Model of Loadtesting/locustfile.py: two locust user classes,            *)
(* ProductAPIUser (HttpUser, every request issued with catch_response=True *)
(* and classified by explicit response.success()/response.failure()) and   *)
(* ProductAPIFastUser (FastHttpUser, every request issued without          *)
(* catch_response).  Each user holds product_ids, created_products and     *)
(* product_counter; every task issues one request, and the request event   *)
(* that locust records for it is kept in `last`.                           *)
(*                                                                         *)
(* The target API is a black box: the status of every response is drawn    *)
(* from Statuses, where 0 is the status_code locust gives a response whose *)
(* request failed in transport (connection refused, timeout, DNS).         *)
(***************************************************************************)
EXTENDS Integers, Sequences, FiniteSets, TLC

\* ---- bounds of the model ------------------------------------------------
NumUsers == 2
MaxCreates == 3

Users == 1..NumUsers

\* ---- program constants ---------------------------------------------------
HttpBase == 1000
FastBase == 2000
NonexistentMax == 100
InvalidMax == 1000

Classes == {"ProductAPIUser", "ProductAPIFastUser"}

\* Status codes the target may answer with; 0 = no HTTP status (transport error).
Statuses == {0, 200, 201, 400, 404, 409, 500}

\* random.randint(1, 100) and random.randint(1, 1000): the two ends of each range.
NonexistentNs == {1, NonexistentMax}
InvalidNs == {1, InvalidMax}

VARIABLES cls, started, product_ids, created_products, product_counter, last

vars == <<cls, started, product_ids, created_products, product_counter, last>>

Range(s) == {s[i] : i \in 1..Len(s)}

\* str.startswith
StartsWith(s, p) == Len(s) >= Len(p) /\ SubSeq(s, 1, Len(p)) = p

\* ---- what locust records for a request ---------------------------------
\* response.success() inside a catch_response block
Success == [success |-> TRUE, message |-> <<>>, raised |-> FALSE]

\* response.failure(msg) inside a catch_response block
Failure(msg) == [success |-> FALSE, message |-> msg, raised |-> FALSE]

\* Status codes geventhttpclient's user agent accepts; any other raises BadStatusCode.
ValidResponseCodes == {200, 201, 202, 203, 204, 205, 206, 207, 208, 226, 301, 302, 303, 304, 307}

\* A request of FastHttpUser issued without catch_response is recorded by the
\* client itself, before the task sees the response: a failure with the
\* transport error when there was one, a failure with BadStatusCode when the
\* status is not a valid response code, a success otherwise.
FastRecorded(status) ==
    IF status = 0 THEN [success |-> FALSE, message |-> <<"TransportError">>]
    ELSE IF status \in ValidResponseCodes THEN [success |-> TRUE, message |-> <<>>]
    ELSE [success |-> FALSE, message |-> <<"BadStatusCode", ToString(status)>>]

\* The response returned without catch_response is a plain FastResponse: it has
\* no failure() method, so a task that calls response.failure(...) raises
\* AttributeError and the recorded entry stays as the client made it.
FastNoCall(status) ==
    [success |-> FastRecorded(status).success,
     message |-> FastRecorded(status).message, raised |-> FALSE]

FastFailureCall(status, msg) ==
    [success |-> FastRecorded(status).success,
     message |-> FastRecorded(status).message, raised |-> TRUE]

\* A recorded request: who sent it, the branch of the task that built it, the
\* id in its path or payload, the status compared against (expect), the
\* response, and the outcome recorded for it.
Event(u, scenario, variant, id, expect, status, body, outcome) ==
    [user |-> u, scenario |-> scenario, variant |-> variant, product_id |-> id,
     expect |-> expect, status |-> status, has_products |-> body,
     success |-> outcome.success, message |-> outcome.message, raised |-> outcome.raised]

NoRequest ==
    [user |-> 0, scenario |-> "none", variant |-> 0, product_id |-> "",
     expect |-> {}, status |-> 0, has_products |-> FALSE,
     success |-> TRUE, message |-> <<>>, raised |-> FALSE]

Init ==
    /\ cls \in [Users -> Classes]
    /\ started = [u \in Users |-> FALSE]
    /\ product_ids = [u \in Users |-> <<>>]
    /\ created_products = [u \in Users |-> <<>>]
    /\ product_counter = [u \in Users |-> 0]
    /\ last = NoRequest

\* ---- on_start ------------------------------------------------------------
SeedIds == <<"1", "2", "3">>

\* Faulty variant: both classes start from the same base.
CounterBaseShared(c) == HttpBase

CounterBase(c) == IF c = "ProductAPIUser" THEN HttpBase ELSE FastBase

on_start(u) ==
    /\ ~started[u]
    /\ started' = [started EXCEPT ![u] = TRUE]
    /\ product_ids' = [product_ids EXCEPT ![u] = SeedIds]
    /\ created_products' = [created_products EXCEPT ![u] = <<>>]
    /\ product_counter' = [product_counter EXCEPT ![u] = CounterBase(cls[u])]
    /\ UNCHANGED <<cls, last>>

\* The request event is fired synchronously and consumed by locust's statistics
\* before any other task runs: a task reports into an empty slot.
log_request ==
    /\ last # NoRequest
    /\ last' = NoRequest
    /\ UNCHANGED <<cls, started, product_ids, created_products, product_counter>>

\* Number of create_valid_product invocations so far, over all users.
RECURSIVE Invocations(_)
Invocations(U) ==
    IF U = {} THEN 0
    ELSE LET u == CHOOSE x \in U : TRUE
         IN (IF started[u] THEN product_counter[u] - CounterBase(cls[u]) ELSE 0)
            + Invocations(U \ {u})

\* ---- failure messages (the f-strings, word by word) ----------------------
MsgMissingProducts == <<"Response", "missing", "'products'", "field">>
MsgGotStatus(status) == <<"Got", "status", "code", ToString(status)>>
\* Faulty variant: the message drops the status received.
MsgExpected404NoActual(status) ==
    <<"Expected", "404", "for", "non-existent", "product">>

MsgExpected404(status) ==
    <<"Expected", "404", "for", "non-existent", "product,", "got", ToString(status)>>
MsgExpected200(status) ==
    <<"Expected", "200", "for", "existing", "product,", "got", ToString(status)>>
MsgUnexpected(status) == <<"Got", "unexpected", "status", "code", ToString(status)>>
MsgExpected400(status) ==
    <<"Expected", "400", "for", "invalid", "data,", "got", ToString(status)>>
MsgExpected409(status) ==
    <<"Expected", "409", "for", "duplicate", "ID,", "got", ToString(status)>>

\* The response body matters only where the code reads it: on a 200 to GET /products.
Bodies(status) == IF status = 200 THEN BOOLEAN ELSE {FALSE}

NonexistentId(n) == "nonexistent_" \o ToString(n)

\* ---- ProductAPIUser ------------------------------------------------------
ListAllOutcome(status, has_products) ==
    IF status = 200
    THEN IF has_products THEN Success ELSE Failure(MsgMissingProducts)
    ELSE Failure(MsgGotStatus(status))

SpecificExpect(product_id) ==
    IF StartsWith(product_id, "nonexistent") THEN {404} ELSE {200}

SpecificOutcome(product_id, status) ==
    IF StartsWith(product_id, "nonexistent")
    THEN IF status = 404 THEN Success ELSE Failure(MsgExpected404(status))
    ELSE IF status = 200 THEN Success ELSE Failure(MsgExpected200(status))

ValidId(counter) == "test_" \o ToString(counter)

\* Faulty variant: the draw takes every id this user generated, acknowledged or not.
ExistingChoicesGenerated(u) ==
    Range(product_ids[u]) \cup {ValidId(n) : n \in HttpBase..(product_counter[u] - 1)}

\* random.choice(self.product_ids + self.created_products)
ExistingChoices(u) == Range(product_ids[u] \o created_products[u])

get_products(u) ==
    /\ started[u]
    /\ last = NoRequest
    /\ cls[u] = "ProductAPIUser"
    /\ \/ \E status \in Statuses : \E body \in Bodies(status) :
            last' = Event(u, "list_all", 0, "", {200}, status, body,
                          ListAllOutcome(status, body))
       \/ \E product_id \in ExistingChoices(u) : \E status \in Statuses :
            last' = Event(u, "get_existing", 0, product_id, SpecificExpect(product_id),
                          status, FALSE, SpecificOutcome(product_id, status))
       \/ \E n \in NonexistentNs : \E status \in Statuses :
            last' = Event(u, "get_nonexistent", 0, NonexistentId(n),
                          SpecificExpect(NonexistentId(n)),
                          status, FALSE, SpecificOutcome(NonexistentId(n), status))
    /\ UNCHANGED <<cls, started, product_ids, created_products, product_counter>>

\* Faulty variant: any status below 400 passes.
ValidOutcomeBelow400(status) ==
    IF status < 400 THEN Success ELSE Failure(MsgUnexpected(status))

ValidOutcome(status) ==
    IF status = 201 THEN Success
    ELSE IF status = 409 THEN Success
    ELSE Failure(MsgUnexpected(status))

\* Faulty variant: the id is tracked on a 409 as well.
ValidAppendOnConflict(created, product_id, status) ==
    IF status = 201 \/ status = 409 THEN Append(created, product_id) ELSE created

ValidAppend(created, product_id, status) ==
    IF status = 201 THEN Append(created, product_id) ELSE created

create_valid_product(u) ==
    /\ started[u]
    /\ last = NoRequest
    /\ cls[u] = "ProductAPIUser"
    /\ Invocations(Users) < MaxCreates
    /\ product_counter' = [product_counter EXCEPT ![u] = @ + 1]
    /\ \E status \in Statuses :
         /\ created_products' = [created_products EXCEPT
                ![u] = ValidAppend(@, ValidId(product_counter[u]), status)]
         /\ last' = Event(u, "create_valid", 0, ValidId(product_counter[u]), {201, 409},
                          status, FALSE, ValidOutcome(status))
    /\ UNCHANGED <<cls, started, product_ids>>

\* invalid_scenarios: 1 missing id, name and price; 2 price 0; 3 negative price;
\* 4 negative stock; 5 empty name.  Scenario 1 carries no id.
InvalidScenarios == 1..5

InvalidId(k, n) == IF k = 1 THEN "" ELSE "invalid_" \o ToString(n)

InvalidOutcome(status) ==
    IF status = 400 THEN Success ELSE Failure(MsgExpected400(status))

DuplicateOutcome(status) ==
    IF status = 409 THEN Success ELSE Failure(MsgExpected409(status))

create_invalid_or_duplicate_product(u) ==
    /\ started[u]
    /\ last = NoRequest
    /\ cls[u] = "ProductAPIUser"
    /\ \/ \E k \in InvalidScenarios : \E n \in InvalidNs : \E status \in Statuses :
            last' = Event(u, "create_invalid", k, InvalidId(k, n), {400}, status, FALSE,
                          InvalidOutcome(status))
       \/ \E existing_id \in Range(product_ids[u]) : \E status \in Statuses :
            last' = Event(u, "create_duplicate", 0, existing_id, {409}, status, FALSE,
                          DuplicateOutcome(status))
    /\ UNCHANGED <<cls, started, product_ids, created_products, product_counter>>

\* ---- ProductAPIFastUser --------------------------------------------------
FastListAllOutcome(status, has_products) ==
    IF status = 200
    THEN IF ~has_products
         THEN FastFailureCall(status, MsgMissingProducts)
         ELSE FastNoCall(status)
    ELSE FastFailureCall(status, MsgGotStatus(status))

FastExistingChoices(u) == Range(product_ids[u] \o created_products[u])

FastSpecificExpect(product_id) ==
    IF StartsWith(product_id, "nonexistent") THEN {404} ELSE {200}

FastSpecificOutcome(product_id, status) ==
    IF StartsWith(product_id, "nonexistent")
    THEN IF status # 404 THEN FastFailureCall(status, MsgExpected404(status))
         ELSE FastNoCall(status)
    ELSE IF status # 200 THEN FastFailureCall(status, MsgExpected200(status))
         ELSE FastNoCall(status)

Fast_get_products(u) ==
    /\ started[u]
    /\ last = NoRequest
    /\ cls[u] = "ProductAPIFastUser"
    /\ \/ \E status \in Statuses : \E body \in Bodies(status) :
            last' = Event(u, "list_all", 0, "", {200}, status, body,
                          FastListAllOutcome(status, body))
       \/ \E product_id \in FastExistingChoices(u) : \E status \in Statuses :
            last' = Event(u, "get_existing", 0, product_id, FastSpecificExpect(product_id),
                          status, FALSE, FastSpecificOutcome(product_id, status))
       \/ \E n \in NonexistentNs : \E status \in Statuses :
            last' = Event(u, "get_nonexistent", 0, NonexistentId(n),
                          FastSpecificExpect(NonexistentId(n)),
                          status, FALSE, FastSpecificOutcome(NonexistentId(n), status))
    /\ UNCHANGED <<cls, started, product_ids, created_products, product_counter>>

FastValidId(counter) == "fast_test_" \o ToString(counter)

FastValidOutcome(status) ==
    IF status = 201 THEN FastNoCall(status)
    ELSE IF status = 409 THEN FastNoCall(status)
    ELSE FastFailureCall(status, MsgUnexpected(status))

FastValidAppend(created, product_id, status) ==
    IF status = 201 THEN Append(created, product_id) ELSE created

Fast_create_valid_product(u) ==
    /\ started[u]
    /\ last = NoRequest
    /\ cls[u] = "ProductAPIFastUser"
    /\ Invocations(Users) < MaxCreates
    /\ product_counter' = [product_counter EXCEPT ![u] = @ + 1]
    /\ \E status \in Statuses :
         /\ created_products' = [created_products EXCEPT
                ![u] = FastValidAppend(@, FastValidId(product_counter[u]), status)]
         /\ last' = Event(u, "create_valid", 0, FastValidId(product_counter[u]), {201, 409},
                          status, FALSE, FastValidOutcome(status))
    /\ UNCHANGED <<cls, started, product_ids>>

FastInvalidId(k, n) == IF k = 1 THEN "" ELSE "fast_invalid_" \o ToString(n)

FastInvalidOutcome(status) ==
    IF status # 400 THEN FastFailureCall(status, MsgExpected400(status))
    ELSE FastNoCall(status)

FastDuplicateOutcome(status) ==
    IF status # 409 THEN FastFailureCall(status, MsgExpected409(status))
    ELSE FastNoCall(status)

Fast_create_invalid_or_duplicate_product(u) ==
    /\ started[u]
    /\ last = NoRequest
    /\ cls[u] = "ProductAPIFastUser"
    /\ \/ \E k \in InvalidScenarios : \E n \in InvalidNs : \E status \in Statuses :
            last' = Event(u, "create_invalid", k, FastInvalidId(k, n), {400}, status, FALSE,
                          FastInvalidOutcome(status))
       \/ \E existing_id \in Range(product_ids[u]) : \E status \in Statuses :
            last' = Event(u, "create_duplicate", 0, existing_id, {409}, status, FALSE,
                          FastDuplicateOutcome(status))
    /\ UNCHANGED <<cls, started, product_ids, created_products, product_counter>>

Next ==
    \/ log_request
    \/ \E u \in Users :
        \/ on_start(u)
        \/ get_products(u)
        \/ create_valid_product(u)
        \/ create_invalid_or_duplicate_product(u)
        \/ Fast_get_products(u)
        \/ Fast_create_valid_product(u)
        \/ Fast_create_invalid_or_duplicate_product(u)

Spec == Init /\ [][Next]_vars

\* ==== properties ==========================================================
Fired == last # NoRequest

\* The step is a task of user u reporting its request.
Reports(u) == last = NoRequest /\ last' # NoRequest /\ last'.user = u

Carries(message, status) == ToString(status) \in Range(message)

IsPrefix(s, t) == Len(s) <= Len(t) /\ SubSeq(t, 1, Len(s)) = s

\* C1: created_products of every user is append-only.  It is empty when
\* on_start has run; afterwards a step either leaves it alone or is that
\* user's own create_valid_product answered 201, which appends exactly the id
\* the request sent; nothing is ever removed, and no step of another user
\* touches it.
C1_CreatedAppendOnly ==
    [][\A u \in Users :
         /\ (~started[u] /\ started'[u]) => created_products'[u] = <<>>
         /\ started[u] =>
              /\ IsPrefix(created_products[u], created_products'[u])
              /\ \/ created_products'[u] = created_products[u]
                 \/ /\ Reports(u)
                    /\ last'.scenario = "create_valid"
                    /\ last'.status = 201
                    /\ created_products'[u] = Append(created_products[u], last'.product_id)
              /\ (Reports(u) /\ last'.scenario = "create_valid" /\ last'.status # 201)
                    => created_products'[u] = created_products[u]]_vars

\* Two users of one class: one has two acknowledged creates, the other has just
\* had a create answered 409 and still tracks nothing.
C1_Witness ==
    \E u, v \in Users :
        /\ u # v /\ cls[u] = cls[v]
        /\ Len(created_products[u]) = 2
        /\ started[v] /\ created_products[v] = <<>>
        /\ Fired /\ last.user = v /\ last.scenario = "create_valid" /\ last.status = 409

\* C2: a valid create is recorded as a success on 201 and on 409 and as a
\* failure on every other status, for both user classes.
C2_ValidCreateOutcome ==
    (Fired /\ last.scenario = "create_valid")
        => (last.success <=> last.status \in {201, 409})

\* C3: a fetch of nonexistent_N is recorded as a success exactly on 404 (so a
\* 200 is a failure), and an id drawn for the existing branch is never compared
\* against 404.
C3_NonexistentOutcome ==
    /\ (Fired /\ last.scenario = "get_nonexistent")
          => (last.success <=> last.status = 404)
    /\ (Fired /\ last.scenario = "get_existing") => last.expect # {404}

\* C4: a create with any of the five invalid payloads is recorded as a success
\* only on 400; every other status, 201 included, is a failure.
C4_InvalidCreateOutcome ==
    (Fired /\ last.scenario = "create_invalid")
        => (last.success => last.status = 400)

\* C5: a create with an id of product_ids is recorded as a success exactly on
\* 409, and the id never enters created_products.
C5_DuplicateCreateOutcome ==
    (Fired /\ last.scenario = "create_duplicate")
        => /\ last.success <=> last.status = 409
           /\ last.product_id \notin Range(created_products[last.user])

\* ---- C6 -----------------------------------------------------------------
IdOf(c, n) == IF c = "ProductAPIUser" THEN ValidId(n) ELSE FastValidId(n)

\* The ids user u has generated for valid creates so far.
GeneratedIds(u) ==
    IF started[u]
    THEN {IdOf(cls[u], n) : n \in (IF cls[u] = "ProductAPIUser" THEN 1000 ELSE 2000)
                                  ..(product_counter[u] - 1)}
    ELSE {}

C6_Ids ==
    /\ (Fired /\ last.scenario = "create_valid")
          => last.product_id \in GeneratedIds(last.user)
    /\ \A u, v \in Users :
          cls[u] # cls[v] => GeneratedIds(u) \cap GeneratedIds(v) = {}

C6_CounterStep ==
    \A u \in Users :
        /\ (~started[u] /\ started'[u])
              => product_counter'[u] = (IF cls[u] = "ProductAPIUser" THEN 1000 ELSE 2000)
        /\ started[u] =>
              /\ product_counter'[u] >= product_counter[u]
              /\ (Reports(u) /\ last'.scenario = "create_valid")
                    => product_counter'[u] = product_counter[u] + 1
              /\ ~(Reports(u) /\ last'.scenario = "create_valid")
                    => product_counter'[u] = product_counter[u]

\* C6: product_counter starts at 1000 (ProductAPIUser) or 2000
\* (ProductAPIFastUser), never decreases, grows by exactly one on every
\* create_valid_product whatever the response and on nothing else; and the ids
\* generated by users of different classes are disjoint.
C6_CounterAndIds == [](C6_Ids) /\ [][C6_CounterStep]_vars

\* Users of both classes have generated ids, the latest create answered 500.
C6_Witness ==
    /\ Fired /\ last.scenario = "create_valid" /\ last.status = 500
    /\ \E u, v \in Users :
          /\ cls[u] = "ProductAPIUser" /\ cls[v] = "ProductAPIFastUser"
          /\ GeneratedIds(u) # {} /\ GeneratedIds(v) # {}

Mismatch == Fired /\ last.status \notin last.expect

CarriesExpected == \E e \in last.expect : Carries(last.message, e)

\* C8 as stated: in every scenario a status that does not satisfy the
\* expectation is recorded as a failure whose message carries the expected and
\* the actual status.
C8_MismatchCarriesBoth ==
    Mismatch => /\ ~last.success
                /\ CarriesExpected
                /\ Carries(last.message, last.status)

\* C8 amended: for ProductAPIUser a mismatch is a failure whose message
\* carries the actual status; it carries the expected status as well for fetch
\* existing, fetch non-existent, invalid create and duplicate create, and not
\* for list all and valid create.  No failure recorded for ProductAPIFastUser
\* on a mismatch carries the expected status.
C8_MismatchMessage ==
    Mismatch =>
        /\ cls[last.user] = "ProductAPIUser" =>
              /\ ~last.success
              /\ Carries(last.message, last.status)
              /\ last.scenario \in {"get_existing", "get_nonexistent",
                                    "create_invalid", "create_duplicate"}
                    => CarriesExpected
              /\ last.scenario \in {"list_all", "create_valid"} => ~CarriesExpected
        /\ cls[last.user] = "ProductAPIFastUser" => ~CarriesExpected

\* A ProductAPIUser fetch of nonexistent_N answered 200.
C8_Witness ==
    /\ Fired /\ last.scenario = "get_nonexistent" /\ last.status = 200
    /\ cls[last.user] = "ProductAPIUser"

\* ---- C9 -----------------------------------------------------------------
\* What ProductAPIUser records for the request of event e.
HttpOutcomeFor(e) ==
    CASE e.scenario = "list_all" -> ListAllOutcome(e.status, e.has_products)
      [] e.scenario \in {"get_existing", "get_nonexistent"}
            -> SpecificOutcome(e.product_id, e.status)
      [] e.scenario = "create_valid" -> ValidOutcome(e.status)
      [] e.scenario = "create_invalid" -> InvalidOutcome(e.status)
      [] e.scenario = "create_duplicate" -> DuplicateOutcome(e.status)

\* C9: whatever ProductAPIFastUser records for a request is what
\* ProductAPIUser records for the same scenario, status and body.
C9_FastEquivalent ==
    (Fired /\ cls[last.user] = "ProductAPIFastUser")
        => last.success = HttpOutcomeFor(last).success

\* ---- C10 ----------------------------------------------------------------
C10_Draw ==
    /\ \A u \in Users :
          started[u] => /\ product_ids[u] = <<"1", "2", "3">>
                        /\ product_ids[u] \o created_products[u] # <<>>
    /\ (Fired /\ last.scenario = "get_existing")
          => last.product_id \in
                Range(product_ids[last.user]) \cup Range(created_products[last.user])

C10_Acknowledged ==
    \A u \in Users :
        \A i \in 1..Len(created_products'[u]) :
            i > Len(created_products[u])
                => /\ Reports(u)
                   /\ last'.status = 201
                   /\ last'.product_id = created_products'[u][i]

\* C10: the id fetched by the existing branch is a member of product_ids or
\* created_products of that user at the time of the request; product_ids is
\* always the seed list "1", "2", "3", so the draw is never from an empty
\* collection; and an id enters created_products only in the step in which
\* this user receives a 201 for it.
C10_ExistingDraw == [](C10_Draw) /\ [][C10_Acknowledged]_vars

\* The existing branch fetches an id this user created.
C10_Witness ==
    /\ Fired /\ last.scenario = "get_existing"
    /\ last.product_id \in Range(created_products[last.user])
====
